---------------------------- MODULE Spec2Model ----------------------------
(***************************************************************************)
(* A model of NetworkAnalyzer: the health assessment engine                *)
(* (network_analyzer/utils.py), the text extractors                        *)
(* (network_analyzer/parsers/*.py) and the collectors                      *)
(* (network_analyzer/collectors/offline.py).                               *)
(*                                                                         *)
(* Every function of the program is synchronous and keeps no state between *)
(* calls, so the state of the model is one pending call and its outcome:   *)
(*   call    the function invoked and its arguments                        *)
(*   result  "pending" until the function has run, then what it returned   *)
(*           (kind "return") or the exception that left it (kind "raise"). *)
(*                                                                         *)
(* Python values: an optional value is a sequence of length at most one    *)
(* (<<>> is None, <<x>> is x); a list is a record [type |-> "list", ...]   *)
(* where None and the empty list must be told apart.  Text is modelled at  *)
(* the level the regular expressions of the program read it: lines,        *)
(* labelled tokens, and characters where the code indexes characters.      *)
(* Percentages and rates are compared in exact arithmetic.                 *)
(***************************************************************************)
EXTENDS Integers, Sequences, FiniteSets, TLC

VARIABLES call, result

vars == <<call, result>>

---------------------------------------------------------------------------
(* Python values *)

None == <<>>

Some(x) == <<x>>

IsNone(o) == o = <<>>

Get(o) == o[1]

Pending == [kind |-> "pending"]

Return(v) == [kind |-> "return", value |-> v]

Raise(e) == [kind |-> "raise", exc |-> e]

Max(a, b) == IF a >= b THEN a ELSE b

RECURSIVE Sum(_)
Sum(s) == IF s = <<>> THEN 0 ELSE Head(s) + Sum(Tail(s))

Range(s) == {s[i] : i \in DOMAIN s}

(* All sequences over S of length at most n. *)
SeqsUpTo(S, n) == UNION {[1..k -> S] : k \in 0..n}

---------------------------------------------------------------------------
(* assess_network_health (utils.py) *)

(* A message of the verdict: the literal text of the f-string and, for the *)
(* per-target messages, the host it names.  Interpolated numbers are left  *)
(* out.                                                                    *)
Msg(text, host) == [text |-> text, host |-> host]

(* The working state of one assessment: the four locals of the function,   *)
(* the amounts subtracted so far, and whether an exception has left it.    *)
InitialAcc ==
    [score |-> 100, warnings |-> <<>>, errors |-> <<>>,
     recommendations |-> <<>>, penalties |-> <<>>, raised |-> FALSE]

Penalize(acc, n) ==
    [acc EXCEPT !.score = @ - n, !.penalties = Append(@, n)]

Warn(acc, text, host) == [acc EXCEPT !.warnings = Append(@, Msg(text, host))]

Err(acc, text, host) == [acc EXCEPT !.errors = Append(@, Msg(text, host))]

Recommend(acc, text) ==
    [acc EXCEPT !.recommendations = Append(@, Msg(text, ""))]

CheckInterface_Penalty5(acc, interface_info) ==
    IF interface_info.status # "active"
    THEN Recommend(Err(Penalize(acc, 5), "Interface is not active", ""),
                   "Check interface configuration and ensure it's enabled")
    ELSE acc

CheckInterface(acc, interface_info) ==
    IF interface_info.status # "active"
    THEN Recommend(Err(Penalize(acc, 50), "Interface is not active", ""),
                   "Check interface configuration and ensure it's enabled")
    ELSE acc

(* error_rate = errors / total * 100, compared exactly:                    *)
(* error_rate > 1.0 iff errors * 100 > total, > 0.1 iff errors * 1000 >    *)
(* total; collisions > total * 0.01 iff collisions * 100 > total.          *)
CheckErrorRate(acc, m, total_packets) ==
    LET errs == m.errors_in + m.errors_out
    IN  IF errs * 100 > total_packets
        THEN Recommend(Err(Penalize(acc, 20), "High error rate", ""),
                       "Check network cables or WiFi signal strength")
        ELSE IF errs * 1000 > total_packets
        THEN Warn(Penalize(acc, 10), "Moderate error rate", "")
        ELSE acc

CheckCollisions(acc, m, total_packets) ==
    IF m.collisions * 100 > total_packets
    THEN Recommend(Warn(Penalize(acc, 5), "High collision rate detected", ""),
                   "Network may be congested")
    ELSE acc

CheckMetrics(acc, metrics) ==
    IF IsNone(metrics) THEN acc
    ELSE LET m == Get(metrics)
             total_packets == m.packets_in + m.packets_out
         IN  IF total_packets > 0
             THEN CheckCollisions(CheckErrorRate(acc, m, total_packets),
                                  m, total_packets)
             ELSE acc

CheckRssi_FlatPenalty(acc, w) ==
    IF w.rssi < -60
    THEN Warn(Penalize(acc, 5), "Fair WiFi signal", "")
    ELSE acc

CheckRssi(acc, w) ==
    IF w.rssi < -80
    THEN Recommend(Err(Penalize(acc, 20), "Very weak WiFi signal", ""),
                   "Move closer to access point or use 5GHz band")
    ELSE IF w.rssi < -70
    THEN Recommend(Warn(Penalize(acc, 10), "Weak WiFi signal", ""),
                   "Consider moving closer to access point")
    ELSE IF w.rssi < -60
    THEN Warn(Penalize(acc, 5), "Fair WiFi signal", "")
    ELSE acc

CheckSnr(acc, w) ==
    IF w.snr < 20
    THEN Recommend(Err(Penalize(acc, 15), "Poor signal-to-noise ratio", ""),
                   "High interference detected, try changing WiFi channel")
    ELSE IF w.snr < 30
    THEN Warn(Penalize(acc, 5), "Low signal-to-noise ratio", "")
    ELSE acc

(* '802.11b' in phy_mode or '802.11g' in phy_mode, for the labels used.    *)
IsLegacyPhy(phy_mode) == phy_mode \in {"802.11b", "802.11g", "802.11b/g"}

CheckPhyMode(acc, w) ==
    IF w.phy_mode # "" /\ IsLegacyPhy(w.phy_mode)
    THEN Recommend(Warn(acc, "Using older WiFi standard", ""),
                   "Upgrade to WiFi 5 (802.11ac) or WiFi 6 (802.11ax)")
    ELSE acc

(* WiFiInfo.band: the band classification derived from the channel.        *)
Band(w) == IF w.channel > 14 THEN "5GHz" ELSE "2.4GHz"

CheckChannelWidth(acc, w) ==
    IF w.channel_width # 0 /\ w.channel_width < 40 /\ Band(w) = "5GHz"
    THEN Recommend(Warn(acc, "Using narrow channel width", ""),
                   "Configure router for 80MHz or 160MHz channel width")
    ELSE acc

CheckWifi_SnrFirst(acc, wifi_info) ==
    IF IsNone(wifi_info) THEN acc
    ELSE LET w == Get(wifi_info)
         IN  CheckChannelWidth(CheckPhyMode(CheckRssi(CheckSnr(acc, w), w), w), w)

CheckWifi(acc, wifi_info) ==
    IF IsNone(wifi_info) THEN acc
    ELSE LET w == Get(wifi_info)
         IN  CheckChannelWidth(CheckPhyMode(CheckSnr(CheckRssi(acc, w), w), w), w)

(* PingResult.jitter: the stddev RTT when present, else 0.                 *)
Jitter(p) == IF IsNone(p.stddev_rtt) THEN 0 ELSE Get(p.stddev_rtt)

CheckPacketLoss(acc, p) ==
    IF p.packet_loss > 5
    THEN Recommend(Err(Penalize(acc, 15), "High packet loss to", p.host),
                   "Check network stability and internet connection")
    ELSE IF p.packet_loss > 1
    THEN Warn(Penalize(acc, 5), "Moderate packet loss to", p.host)
    ELSE acc

CheckLatency_Inverted(acc, p) ==
    IF IsNone(p.avg_rtt)
    THEN [acc EXCEPT !.raised = TRUE]
    ELSE IF Get(p.avg_rtt) < 100
    THEN Recommend(Warn(Penalize(acc, 10), "High latency to", p.host),
                   "Check for network congestion or bandwidth issues")
    ELSE acc

(* result.avg_rtt > 100: with avg_rtt None the comparison of None with an  *)
(* int raises TypeError, which nothing in the function catches.            *)
CheckLatency(acc, p) ==
    IF IsNone(p.avg_rtt)
    THEN [acc EXCEPT !.raised = TRUE]
    ELSE IF Get(p.avg_rtt) > 100
    THEN Recommend(Warn(Penalize(acc, 10), "High latency to", p.host),
                   "Check for network congestion or bandwidth issues")
    ELSE acc

CheckJitter(acc, p) ==
    IF Jitter(p) > 20
    THEN Recommend(Warn(Penalize(acc, 10), "High jitter to", p.host),
                   "Network instability detected, may affect VoIP and gaming")
    ELSE IF Jitter(p) > 10
    THEN Warn(Penalize(acc, 5), "Moderate jitter to", p.host)
    ELSE acc

(* One iteration of the loop over ping_results; an exception ends it.      *)
CheckPing(acc, p) ==
    LET a1 == CheckPacketLoss(acc, p)
        a2 == CheckLatency(a1, p)
    IN  IF a2.raised THEN a2 ELSE CheckJitter(a2, p)

RECURSIVE CheckPingList(_, _)
CheckPingList(acc, ps) ==
    IF ps = <<>> \/ acc.raised THEN acc
    ELSE CheckPingList(CheckPing(acc, Head(ps)), Tail(ps))

(* if ping_results: None and the empty list are both skipped.              *)
CheckPings(acc, ping_results) ==
    IF IsNone(ping_results) THEN acc
    ELSE CheckPingList(acc, Get(ping_results))

CheckSpeed(acc, speed_result) ==
    IF IsNone(speed_result) THEN acc
    ELSE LET s == Get(speed_result)
             a1 == IF s.download_mbps < 10
                   THEN Recommend(Warn(Penalize(acc, 10), "Slow download speed", ""),
                                  "Contact ISP or check for bandwidth throttling")
                   ELSE acc
         IN  IF s.upload_mbps < 5
             THEN Warn(Penalize(a1, 5), "Slow upload speed", "")
             ELSE a1

ClampScore_NoFloor(score) == score

ClampScore(score) == Max(0, score)

(* The locals of assess_network_health when it leaves its last check.      *)
AssessAcc(a) ==
    LET a1 == CheckInterface(InitialAcc, a.interface_info)
        a2 == CheckMetrics(a1, a.metrics)
        a3 == CheckWifi(a2, a.wifi_info)
        a4 == CheckPings(a3, a.ping_results)
    IN  IF a4.raised THEN a4 ELSE CheckSpeed(a4, a.speed_result)

(* The outcome of assess_network_health(a...).  HealthStatus.overall is    *)
(* derived from the score alone and is left out; penalties is the list of  *)
(* amounts the run subtracted, kept beside the value for the claims.       *)
assess_network_health(a) ==
    LET acc == AssessAcc(a)
    IN  IF acc.raised THEN Raise("TypeError")
        ELSE [kind |-> "return",
              value |-> [score |-> ClampScore(acc.score),
                         warnings |-> acc.warnings,
                         errors |-> acc.errors,
                         recommendations |-> acc.recommendations],
              penalties |-> acc.penalties]

---------------------------------------------------------------------------
(* Inputs of assess_network_health *)

MaxPings == 2

StatusValues == {"active", "inactive"}

MetricsValues ==
    { [packets_in |-> 600, packets_out |-> 400, errors_in |-> 0,
       errors_out |-> 0, collisions |-> 0],
      [packets_in |-> 600, packets_out |-> 400, errors_in |-> 2,
       errors_out |-> 0, collisions |-> 10],
      [packets_in |-> 600, packets_out |-> 400, errors_in |-> 9,
       errors_out |-> 2, collisions |-> 11],
      [packets_in |-> 0, packets_out |-> 0, errors_in |-> 0,
       errors_out |-> 0, collisions |-> 7] }

RssiValues == {-85, -80, -75, -70, -65, -60, -55}

SnrValues == {15, 25, 40}

(* phy mode, channel and channel width of the association *)
RadioValues ==
    { [phy_mode |-> "802.11ac", channel |-> 36, channel_width |-> 80],
      [phy_mode |-> "802.11ac", channel |-> 36, channel_width |-> 20],
      [phy_mode |-> "802.11ac", channel |-> 36, channel_width |-> 0],
      [phy_mode |-> "802.11g", channel |-> 6, channel_width |-> 20] }

WifiValues ==
    { [rssi |-> r, snr |-> s, phy_mode |-> x.phy_mode, channel |-> x.channel,
       channel_width |-> x.channel_width] :
        r \in RssiValues, s \in SnrValues, x \in RadioValues }

(* Loss and RTT figures of one target: a clean run, a failed run without   *)
(* RTT fields, a run with moderate loss and jitter, a bad run.             *)
PingFigures ==
    { [packet_loss |-> 0, avg_rtt |-> Some(20), stddev_rtt |-> Some(2)],
      [packet_loss |-> 100, avg_rtt |-> None, stddev_rtt |-> None],
      [packet_loss |-> 3, avg_rtt |-> Some(20), stddev_rtt |-> Some(15)],
      [packet_loss |-> 10, avg_rtt |-> Some(150), stddev_rtt |-> Some(25)] }

Hosts == <<"8.8.8.8", "1.1.1.1", "9.9.9.9">>

(* The i-th target of a run is the i-th host. *)
PingLists ==
    { [i \in DOMAIN f |->
          [host |-> Hosts[i], packet_loss |-> f[i].packet_loss,
           avg_rtt |-> f[i].avg_rtt, stddev_rtt |-> f[i].stddev_rtt]] :
        f \in SeqsUpTo(PingFigures, MaxPings) }

SpeedValues ==
    { [download_mbps |-> d, upload_mbps |-> u] : d \in {5, 100}, u \in {2, 20} }

Optional(S) == {None} \cup {Some(x) : x \in S}

HealthCalls ==
    { [op |-> "assess_network_health",
       interface_info |-> [status |-> st],
       metrics |-> m, wifi_info |-> w, ping_results |-> p, speed_result |-> s] :
        st \in StatusValues, m \in Optional(MetricsValues),
        w \in Optional(WifiValues), p \in Optional(PingLists),
        s \in Optional(SpeedValues) }

InitHealth == call \in HealthCalls /\ result = Pending

Assess ==
    /\ call.op = "assess_network_health"
    /\ result = Pending
    /\ result' = assess_network_health(call)
    /\ UNCHANGED call

NextHealth == Assess

SpecHealth == InitHealth /\ [][NextHealth]_vars

---------------------------------------------------------------------------
(* Characters and numeric conversions *)

Digits == {"0", "1", "2", "3", "4", "5", "6", "7", "8", "9"}

LowerHex == Digits \cup {"a", "b", "c", "d", "e", "f"}

UpperHex == {"A", "B", "C", "D", "E", "F"}

(* The value of one hexadecimal digit, in either letter case. *)
HexDigit(c) ==
    CASE c = "0" -> 0 [] c = "1" -> 1 [] c = "2" -> 2 [] c = "3" -> 3
      [] c = "4" -> 4 [] c = "5" -> 5 [] c = "6" -> 6 [] c = "7" -> 7
      [] c = "8" -> 8 [] c = "9" -> 9
      [] c \in {"a", "A"} -> 10 [] c \in {"b", "B"} -> 11
      [] c \in {"c", "C"} -> 12 [] c \in {"d", "D"} -> 13
      [] c \in {"e", "E"} -> 14 [] c \in {"f", "F"} -> 15

(* int(s, 16) and int(s) on a non-empty string of digits s. *)
RECURSIVE BaseValue(_, _)
BaseValue(s, base) ==
    IF s = <<>> THEN 0
    ELSE BaseValue(SubSeq(s, 1, Len(s) - 1), base) * base + HexDigit(s[Len(s)])

(* s[i:j] of Python, for 0 <= i <= j: the slice is cut at the end of s.    *)
Slice(s, i, j) ==
    IF i >= Len(s) THEN <<>>
    ELSE SubSeq(s, i + 1, IF j <= Len(s) THEN j ELSE Len(s))

(* The longest prefix of s whose characters are all in S: what a greedy    *)
(* character class [S]+ or [S]* matches at the start of s.                 *)
RECURSIVE PrefixIn(_, _)
PrefixIn(s, S) ==
    IF s = <<>> \/ Head(s) \notin S THEN <<>>
    ELSE <<Head(s)>> \o PrefixIn(Tail(s), S)

StartsWith(s, p) == Len(p) <= Len(s) /\ SubSeq(s, 1, Len(p)) = p

(* The values of f on the elements of sequence s, in order. *)
MapSeq(s, f(_)) == [i \in DOMAIN s |-> f(s[i])]

(* The first element of s that satisfies Test, or None. *)
First(s, Test(_)) ==
    LET hits == SelectSeq(s, Test)
    IN  IF hits = <<>> THEN None ELSE Some(Head(hits))

---------------------------------------------------------------------------
(* parse_dns_servers (parsers/system_profiler.py) *)

IPv4Addrs == {"8.8.8.8", "1.1.1.1"}

LocalAddrs == {"127.0.0.1"}

(* \d+\.\d+\.\d+\.\d+ matches at the start of the value. *)
IsIPv4(v) == v \in IPv4Addrs \cup LocalAddrs

(* list(dict.fromkeys(matches)) keeps every key once, at the place of its  *)
(* first occurrence.                                                       *)
RECURSIVE UniqueInOrder(_)
UniqueInOrder(s) ==
    IF s = <<>> THEN <<>>
    ELSE LET rest == UniqueInOrder(SubSeq(s, 1, Len(s) - 1))
             last == s[Len(s)]
         IN  IF last \in Range(rest) THEN rest ELSE Append(rest, last)

(* A line of scutil --dns output: its label and the value after the colon. *)
(* The pattern nameserver\[\d+\]\s*:\s*(\d+\.\d+\.\d+\.\d+) matches the    *)
(* nameserver lines whose value is a dotted IPv4 address.                  *)
IsNameserverMatch(line) == line.label = "nameserver" /\ IsIPv4(line.value)

LineValue(line) == line.value

parse_dns_servers(output) ==
    Return(UniqueInOrder(MapSeq(SelectSeq(output, IsNameserverMatch), LineValue)))

---------------------------------------------------------------------------
(* parse_dhcp_info (parsers/dhcp.py) *)

(* ip.strip(): an item of a brace list is its text and the blanks around   *)
(* it.                                                                     *)
Strip(item) == item.text

(* A packet dump is read as its opcode and, per label, the captured text   *)
(* of the first line carrying the label (None: no line matches the         *)
(* pattern of the label).  A brace list is the sequence of its             *)
(* comma-separated items, never empty since [^}]+ needs a character.       *)
parse_dhcp_info(output) ==
    IF output.op \notin {"BOOTREPLY", "BOOTREQUEST"}
    THEN Return(None)
    ELSE Return(Some(
        [is_dhcp |-> TRUE,
         server |-> output.server_identifier,
         router |-> IF IsNone(output.router) THEN None
                    ELSE Some(Strip(Get(output.router)[1])),
         dns_servers |-> IF IsNone(output.domain_name_server) THEN <<>>
                         ELSE MapSeq(Get(output.domain_name_server), Strip),
         domain_name |-> output.domain_name,
         subnet_mask |-> output.subnet_mask,
         lease_time |-> IF IsNone(output.lease_time) THEN None
                        ELSE Some(BaseValue(Get(output.lease_time), 16))]))

---------------------------------------------------------------------------
(* parse_ifconfig (parsers/ifconfig.py) *)

(* A line of ifconfig output is read as:                                   *)
(*   head      the text before the colon when the line starts, in column   *)
(*             0, with "<name>:" ("" otherwise)                            *)
(*   indented  the line starts with a tab or a blank                       *)
(*   empty     the line is the empty string                                *)
(*   flags     the text after the colon of the head starts with "flags="   *)
(*   label     the keyword the line carries (ether, inet, inet6, status,   *)
(*             media, mtu), value the text after it                        *)
(*   chars     for inet, the characters that follow "netmask 0x" (none     *)
(*             when no netmask follows the address); for mtu, the          *)
(*             characters that follow "mtu"                                *)

(* The same scan without the break at the header of another interface.    *)
ScanBlock_NoBreak(lines, interface_name, in_block, block_lines) ==
    LET starts == {i \in DOMAIN lines : lines[i].head = interface_name}
    IN  IF in_block THEN block_lines \o lines
        ELSE IF starts = {} THEN block_lines
        ELSE block_lines \o
             SubSeq(lines, CHOOSE i \in starts : \A j \in starts : i <= j, Len(lines))

(* for line in lines: ... the lines of the block of interface_name.        *)
RECURSIVE ScanBlock(_, _, _, _)
ScanBlock(lines, interface_name, in_block, block_lines) ==
    IF lines = <<>> THEN block_lines
    ELSE LET line == Head(lines)
         IN  IF line.head = interface_name
             THEN ScanBlock(Tail(lines), interface_name, TRUE,
                            Append(block_lines, line))
             ELSE IF in_block /\ ~line.empty /\ ~line.indented
             THEN block_lines
             ELSE IF in_block
             THEN ScanBlock(Tail(lines), interface_name, TRUE,
                            Append(block_lines, line))
             ELSE ScanBlock(Tail(lines), interface_name, FALSE, block_lines)

(* ether\s+([0-9a-f:]+), ignoring case *)
IsEtherMatch(line) == line.label = "ether" /\ line.value # ""

(* inet\s+(\d+\.\d+\.\d+\.\d+)\s+netmask\s+0x([0-9a-f]+): group 2 is the   *)
(* run of lower-case hex digits after 0x, and must not be empty.           *)
IsInetMatch(line) ==
    /\ line.label = "inet"
    /\ IsIPv4(line.value)
    /\ PrefixIn(line.chars, LowerHex) # <<>>

IsInet6Match(line) == line.label = "inet6" /\ line.value # ""

IsStatusMatch(line) == line.label = "status" /\ line.value # ""

IsMediaMatch(line) == line.label = "media" /\ line.value # ""

(* mtu\s+(\d+) *)
IsMtuMatch(line) == line.label = "mtu" /\ PrefixIn(line.chars, Digits) # <<>>

(* hex_mask[i:i+2] for i in range(0, 8, 2) *)
MaskBytes(hex_mask) == [k \in 1..4 |-> Slice(hex_mask, 2 * (k - 1), 2 * k)]

MaskBytes_Padded(hex_mask) ==
    [k \in 1..4 |->
        LET b == Slice(hex_mask, 2 * (k - 1), 2 * k)
        IN  IF b = <<>> THEN <<"0">> ELSE b]

(* '.'.join(str(int(b, 16)) ...): the four numbers of the dotted mask.     *)
DottedMask(bytes) == [k \in 1..4 |-> BaseValue(bytes[k], 16)]

parse_ifconfig(output, interface_name) ==
    LET block == ScanBlock(output, interface_name, FALSE, <<>>)
        mac_match == First(block, IsEtherMatch)
        ipv4_match == First(block, IsInetMatch)
        status_match == First(block, IsStatusMatch)
        media_match == First(block, IsMediaMatch)
        mtu_match == First(block, IsMtuMatch)
        hex_mask == PrefixIn(Get(ipv4_match).chars, LowerHex)
    IN  IF block = <<>> THEN Return(None)
        ELSE IF ~IsNone(ipv4_match) /\ \E k \in 1..4 : MaskBytes(hex_mask)[k] = <<>>
        THEN Raise("ValueError")
        ELSE Return(Some(
            [name |-> interface_name,
             hardware_port |-> "",
             mac_address |-> IF IsNone(mac_match) THEN ""
                             ELSE Get(mac_match).value,
             ipv4_address |-> IF IsNone(ipv4_match) THEN None
                              ELSE Some(Get(ipv4_match).value),
             ipv6_addresses |-> MapSeq(SelectSeq(block, IsInet6Match), LineValue),
             netmask |-> IF IsNone(ipv4_match) THEN None
                         ELSE Some(DottedMask(MaskBytes(hex_mask))),
             status |-> IF IsNone(status_match) THEN "unknown"
                        ELSE Get(status_match).value,
             media_type |-> IF IsNone(media_match) THEN ""
                            ELSE Get(media_match).value,
             mtu |-> IF IsNone(mtu_match) THEN 0
                     ELSE BaseValue(PrefixIn(Get(mtu_match).chars, Digits), 10)]))

---------------------------------------------------------------------------
(* parse_netstat_interface (parsers/netstat.py) *)

(* int(token): the token must be a non-empty run of decimal digits.        *)
IsInt(token) == token # <<>> /\ \A i \in DOMAIN token : token[i] \in Digits

(* A row is line.split(): its whitespace-separated tokens, each a sequence *)
(* of characters.  The line starts with its first token, so                *)
(* line.startswith(interface_name) compares the name with that token.      *)
RowStartsWith(parts, interface_name) ==
    parts # <<>> /\ StartsWith(parts[1], interface_name)

(* The body of the try: parts[4..9] and, when present, parts[10]           *)
(* (0-based) converted with int(); any failure is caught and the row       *)
(* skipped.                                                                *)
RowConverts(parts) ==
    /\ \A k \in 5..10 : IsInt(parts[k])
    /\ Len(parts) > 10 => IsInt(parts[11])

RowUsable(parts, interface_name) ==
    /\ RowStartsWith(parts, interface_name)
    /\ Len(parts) >= 10
    /\ RowConverts(parts)

parse_netstat_interface(output, interface_name) ==
    LET Usable(parts) == RowUsable(parts, interface_name)
        row == First(output, Usable)
    IN  IF IsNone(row) THEN Return(None)
        ELSE LET parts == Get(row)
             IN  Return(Some(
                 [interface |-> interface_name,
                  packets_in |-> BaseValue(parts[5], 10),
                  errors_in |-> BaseValue(parts[6], 10),
                  bytes_in |-> BaseValue(parts[7], 10),
                  packets_out |-> BaseValue(parts[8], 10),
                  errors_out |-> BaseValue(parts[9], 10),
                  bytes_out |-> BaseValue(parts[10], 10),
                  collisions |-> IF Len(parts) > 10
                                 THEN BaseValue(parts[11], 10) ELSE 0]))

---------------------------------------------------------------------------
(* parse_airport_info (parsers/airport.py) *)

(* A line of airport -I output is its label (the text before the colon)    *)
(* and its value: text, the pieces of the stripped text after the colon    *)
(* (<<>> when nothing follows it), and residue, the characters of the      *)
(* value that are digits or minus signs, which is what                     *)
(* re.sub(r'[^\d-]', '', value) keeps.                                     *)

(* The keys that the text "<label>:" ends with: SSID: is found in BSSID:.  *)
KeysIn(label) == IF label = "BSSID" THEN {"BSSID", "SSID"} ELSE {label}

(* The digits of a label, for a label captured as part of a value.         *)
LabelResidue(label) ==
    IF label = "802.11 auth" THEN <<"8", "0", "2", "1", "1">> ELSE <<>>

(* What (.+) captures at line i for rf'{key}:\s*(.+)': the value of the    *)
(* line, or, the value being empty, the whole next line, since \s* runs    *)
(* over the line break.                                                    *)
Capture(output, i) ==
    IF output[i].value.text # <<>> THEN Some(output[i].value)
    ELSE IF i < Len(output)
    THEN Some([text |-> <<output[i + 1].label, ":">> \o output[i + 1].value.text,
               residue |-> LabelResidue(output[i + 1].label)
                              \o output[i + 1].value.residue])
    ELSE None

(* extract_value(key): the capture of the first match, or None.            *)
extract_value(output, key) ==
    LET hits == {i \in DOMAIN output :
                    key \in KeysIn(output[i].label) /\ ~IsNone(Capture(output, i))}
    IN  IF hits = {} THEN None
        ELSE Capture(output, CHOOSE i \in hits : \A j \in hits : i <= j)

(* int(s) on a string of digits and minus signs: an optional minus sign    *)
(* then at least one digit; anything else raises ValueError.               *)
IsSignedInt(s) ==
    /\ s # <<>>
    /\ IF Head(s) = "-" THEN IsInt(Tail(s)) ELSE IsInt(s)

SignedValue(s) ==
    IF Head(s) = "-" THEN 0 - BaseValue(Tail(s), 10) ELSE BaseValue(s, 10)

extract_int_Uncaught(output, key, default) ==
    LET value == extract_value(output, key)
    IN  IF IsNone(value) THEN Return(default)
        ELSE IF IsSignedInt(Get(value).residue)
        THEN Return(SignedValue(Get(value).residue))
        ELSE Raise("ValueError")

(* extract_int(key, default): ValueError is caught and the default         *)
(* returned.                                                               *)
extract_int(output, key, default) ==
    LET value == extract_value(output, key)
    IN  IF IsNone(value) THEN Return(default)
        ELSE IF IsSignedInt(Get(value).residue)
        THEN Return(SignedValue(Get(value).residue))
        ELSE Return(default)

TextOr(value, default) == IF IsNone(value) THEN default ELSE Get(value).text

IsAirPortOff(line) == line.label = "AirPort" /\ line.value.text = <<"Off">>

parse_airport_info(output) ==
    LET ssid == TextOr(extract_value(output, "SSID"), <<>>)
        ints == [key \in {"agrCtlRSSI", "agrCtlNoise", "channel", "lastTxRate",
                          "MCS", "channelWidth"} |->
                    extract_int(output, key, IF key = "MCS" THEN -1 ELSE 0)]
    IN  IF output = <<>> \/ SelectSeq(output, IsAirPortOff) # <<>>
        THEN Return(None)
        ELSE IF ssid = <<>> THEN Return(None)
        ELSE IF \E key \in DOMAIN ints : ints[key].kind = "raise"
        THEN Raise("ValueError")
        ELSE Return(Some(
            [ssid |-> ssid,
             bssid |-> TextOr(extract_value(output, "BSSID"), <<>>),
             channel |-> ints["channel"].value,
             rssi |-> ints["agrCtlRSSI"].value,
             noise |-> ints["agrCtlNoise"].value,
             snr |-> ints["agrCtlRSSI"].value - ints["agrCtlNoise"].value,
             tx_rate |-> ints["lastTxRate"].value,
             mcs_index |-> ints["MCS"].value,
             phy_mode |-> TextOr(extract_value(output, "PHY Mode"), <<>>),
             security |-> TextOr(extract_value(output, "link auth"), <<>>),
             channel_width |-> ints["channelWidth"].value]))

---------------------------------------------------------------------------
(* parse_all_interfaces (parsers/ifconfig.py) *)

(* The pattern "name:", blanks, "flags=" at the start of a line, on every  *)
(* line: the heads of the lines that carry flags.                          *)
IsFlagsHeader(line) == line.head # "" /\ line.flags

LineHead(line) == line.head

parse_all_interfaces(output) == MapSeq(SelectSeq(output, IsFlagsHeader), LineHead)

---------------------------------------------------------------------------
(* parse_airport_scan (parsers/airport.py) *)

(* A row is line.split(), each token a sequence of characters; the first   *)
(* line of the output is skipped.  A row of fewer than 7 tokens, or whose  *)
(* RSSI or channel is not an integer, is left out.                         *)
IsScanRow(parts) ==
    Len(parts) >= 7 /\ IsSignedInt(parts[3]) /\ IsSignedInt(parts[4])

NetworkScan(parts) ==
    [ssid |-> parts[1], bssid |-> parts[2], channel |-> SignedValue(parts[4]),
     rssi |-> SignedValue(parts[3]), security |-> SubSeq(parts, 7, Len(parts))]

parse_airport_scan(output) ==
    LET rows == IF output = <<>> THEN <<>> ELSE Tail(output)
    IN  MapSeq(SelectSeq(rows, IsScanRow), NetworkScan)

---------------------------------------------------------------------------
(* parse_routing_table, get_default_gateway (parsers/netstat.py) *)

(* A line of netstat -rn output is line.split(), each token a string.      *)
IsRouteHeader(parts) ==
    "Destination" \in Range(parts) /\ "Gateway" \in Range(parts)

IsInternet6(parts) == "Internet6:" \in Range(parts)

Route(parts) ==
    [destination |-> parts[1], gateway |-> parts[2], flags |-> parts[3],
     interface |-> parts[4]]

RECURSIVE ScanRoutes(_, _, _)
ScanRoutes(lines, in_ipv4, routes) ==
    IF lines = <<>> THEN routes
    ELSE LET parts == Head(lines)
         IN  IF IsRouteHeader(parts)
             THEN ScanRoutes(Tail(lines), TRUE, routes)
             ELSE IF in_ipv4 /\ parts # <<>> /\ IsInternet6(parts)
             THEN routes
             ELSE IF in_ipv4 /\ Len(parts) >= 4
             THEN ScanRoutes(Tail(lines), in_ipv4, Append(routes, Route(parts)))
             ELSE ScanRoutes(Tail(lines), in_ipv4, routes)

parse_routing_table(output) == ScanRoutes(output, FALSE, <<>>)

(* ^default\s+(\d+\.\d+\.\d+\.\d+) on every line *)
IsDefaultRoute(parts) ==
    Len(parts) >= 2 /\ parts[1] = "default" /\ IsIPv4(parts[2])

get_default_gateway(output) ==
    LET hit == First(output, IsDefaultRoute)
    IN  IF IsNone(hit) THEN None ELSE Some(Get(hit)[2])

---------------------------------------------------------------------------
(* parse_hardware_port_mapping (parsers/system_profiler.py) *)

(* A line of networksetup output is its label and the stripped text after  *)
(* the first colon.  The mapping is a function from the devices seen to    *)
(* the port named before each; a later line for a device replaces an       *)
(* earlier one.                                                            *)
RECURSIVE ScanPorts(_, _, _)
ScanPorts(lines, current_port, mapping) ==
    IF lines = <<>> THEN mapping
    ELSE LET line == Head(lines)
         IN  IF line.label = "Hardware Port"
             THEN ScanPorts(Tail(lines), line.value, mapping)
             ELSE IF line.label = "Device" /\ current_port # ""
             THEN ScanPorts(Tail(lines), "",
                            [d \in DOMAIN mapping \cup {line.value} |->
                                IF d = line.value THEN current_port
                                ELSE mapping[d]])
             ELSE ScanPorts(Tail(lines), current_port, mapping)

parse_hardware_port_mapping(output) == ScanPorts(output, "", <<>>)

---------------------------------------------------------------------------
(* Inputs of the extractors *)

MaxDnsLines == 3

MaxListItems == 3

DnsLines ==
    { [label |-> "nameserver", value |-> a] : a \in IPv4Addrs \cup {"fe80::1"} }
        \cup { [label |-> "search domain", value |-> "lan"] }

BraceItems == { [text |-> a, padded |-> b] : a \in IPv4Addrs, b \in BOOLEAN }

BraceLists == SeqsUpTo(BraceItems, MaxListItems) \ {<<>>}

DhcpPackets ==
    { [op |-> o, server_identifier |-> sv, router |-> r,
       domain_name_server |-> d, domain_name |-> n, subnet_mask |-> m,
       lease_time |-> l] :
        o \in {"BOOTREPLY", "BOOTREQUEST", ""},
        sv \in Optional({"192.168.1.1"}),
        r \in Optional({<<[text |-> "192.168.1.1", padded |-> FALSE]>>}),
        d \in Optional(BraceLists),
        n \in Optional({"lan"}),
        m \in Optional({"255.255.255.0"}),
        l \in Optional({<<"0", "0", "0", "0", "0", "e", "1", "0">>, <<"F", "f">>}) }

MaxIfLines == 4

IfLine(head, indented, label, value, chars) ==
    [head |-> head, indented |-> indented, empty |-> FALSE,
     flags |-> head # "", label |-> label, value |-> value, chars |-> chars]

EmptyLine ==
    [head |-> "", indented |-> FALSE, empty |-> TRUE, flags |-> FALSE,
     label |-> "", value |-> "", chars |-> <<>>]

IfLines ==
    { IfLine("en0", FALSE, "mtu", "", <<"1", "5", "0", "0">>),
      IfLine("en1", FALSE, "mtu", "", <<"9", "0">>),
      IfLine("", TRUE, "ether", "aa:bb:cc:dd:ee:ff", <<>>),
      IfLine("", TRUE, "inet", "8.8.8.8",
             <<"f", "f", "f", "f", "f", "f", "0", "0">>),
      IfLine("", TRUE, "inet", "1.1.1.1", <<"f", "f", "f", "f">>),
      IfLine("", TRUE, "inet", "1.1.1.1",
             <<"F", "F", "0", "0", "0", "0", "0", "0">>),
      IfLine("", TRUE, "inet6", "fe80::1", <<>>),
      IfLine("", TRUE, "status", "active", <<>>),
      EmptyLine }

InterfaceNames == {"en0"}

IfconfigCalls ==
    { [op |-> "parse_ifconfig", output |-> o, interface_name |-> n] :
        o \in SeqsUpTo(IfLines, MaxIfLines), n \in InterfaceNames }

MaxNetstatRows == 3

NetstatRows ==
    LET n100 == <<"1", "0", "0">>
        n0 == <<"0">>
        name == <<"e", "n", "0">>
        longer == <<"e", "n", "0", "1">>
        tail == <<<<"1", "5", "0", "0">>, <<"L", "i", "n", "k">>, <<"a", ":", "b">>,
                  n100, n0, <<"5", "0">>, <<"8", "0">>, <<"1">>, <<"4", "0">>>>
    IN  { <<name>> \o tail \o <<<<"2">>>>,
          <<name>> \o tail,
          <<name>> \o SubSeq(tail, 1, 8),
          <<name>> \o [tail EXCEPT ![5] = <<"-">>] \o <<<<"2">>>>,
          <<longer>> \o [tail EXCEPT ![4] = <<"7">>] \o <<<<"3">>>>,
          <<<<"N", "a", "m", "e">>, <<"M", "t", "u">>>> }

NetstatCalls ==
    { [op |-> "parse_netstat_interface", output |-> o,
       interface_name |-> <<"e", "n", "0">>] :
        o \in SeqsUpTo(NetstatRows, MaxNetstatRows) }

MaxAirportLines == 3

AirportLine(label, text, residue) ==
    [label |-> label, value |-> [text |-> text, residue |-> residue]]

AirportLines ==
    { AirportLine("agrCtlRSSI", <<"-55">>, <<"-", "5", "5">>),
      AirportLine("agrCtlNoise", <<"9-5">>, <<"9", "-", "5">>),
      AirportLine("802.11 auth", <<"open">>, <<>>),
      AirportLine("BSSID", <<"aa:bb:cc:dd:ee:ff">>, <<>>),
      AirportLine("SSID", <<"home">>, <<>>),
      AirportLine("SSID", <<>>, <<>>),
      AirportLine("MCS", <<>>, <<>>),
      AirportLine("channel", <<"36,80">>, <<"3", "6", "8", "0">>),
      AirportLine("AirPort", <<"Off">>, <<>>) }

AirportCalls ==
    { [op |-> "parse_airport_info", output |-> o] :
        o \in SeqsUpTo(AirportLines, MaxAirportLines) }

DnsCalls ==
    { [op |-> "parse_dns_servers", output |-> o] : o \in SeqsUpTo(DnsLines, MaxDnsLines) }

DhcpCalls == { [op |-> "parse_dhcp_info", output |-> o] : o \in DhcpPackets }

ParseDnsServers ==
    /\ call.op = "parse_dns_servers"
    /\ result = Pending
    /\ result' = parse_dns_servers(call.output)
    /\ UNCHANGED call

ParseDhcpInfo ==
    /\ call.op = "parse_dhcp_info"
    /\ result = Pending
    /\ result' = parse_dhcp_info(call.output)
    /\ UNCHANGED call

ParseIfconfig ==
    /\ call.op = "parse_ifconfig"
    /\ result = Pending
    /\ result' = parse_ifconfig(call.output, call.interface_name)
    /\ UNCHANGED call

ParseNetstatInterface ==
    /\ call.op = "parse_netstat_interface"
    /\ result = Pending
    /\ result' = parse_netstat_interface(call.output, call.interface_name)
    /\ UNCHANGED call

ParseAirportInfo ==
    /\ call.op = "parse_airport_info"
    /\ result = Pending
    /\ result' = parse_airport_info(call.output)
    /\ UNCHANGED call

InitParse ==
    /\ call \in (DnsCalls \cup DhcpCalls \cup IfconfigCalls \cup NetstatCalls
                    \cup AirportCalls)
    /\ result = Pending

NextParse ==
    \/ ParseDnsServers
    \/ ParseDhcpInfo
    \/ ParseIfconfig
    \/ ParseNetstatInterface
    \/ ParseAirportInfo

SpecParse == InitParse /\ [][NextParse]_vars

---------------------------------------------------------------------------
(* execute_command (utils.py) and the collectors (collectors/offline.py)   *)

(* What one invocation of execute_command gives its caller: the captured   *)
(* output and exit code, or CommandExecutionError, raised on a timeout, a  *)
(* missing executable and any other failure to run the command.            *)
ExecOk(stdout, code) == [raised |-> FALSE, stdout |-> stdout, code |-> code]

ExecError(error) == [raised |-> TRUE, error |-> error]

ErrorKinds == {"timeout", "not-found", "failed"}

(* The values a collector returns: None, a list, or an object.             *)
PyNone == [type |-> "None"]

PyList(items) == [type |-> "list", items |-> items]

(* An optional record of an extractor as the collector hands it on.        *)
OptToPy(o) == IF IsNone(o) THEN PyNone ELSE Get(o)

(* A collector returned value; failed names the invocations of             *)
(* execute_command that raised during the call.                            *)
Done(value, failed) == [kind |-> "return", value |-> value, failed |-> failed]

(* The same collector without the except clause for execute_command.      *)
TryCollect_NoExcept(run, cmd, body, empty) ==
    IF run.raised THEN Raise("CommandExecutionError")
    ELSE IF body.kind = "raise" THEN Done(empty, {})
    ELSE Done(body.value, {})

(* A collector whose whole body is                                         *)
(*   try: stdout, _, code = execute_command(...); return body              *)
(*   except Exception: return empty                                        *)
(* body being the outcome of the extractor on the output.                  *)
TryCollect(run, cmd, body, empty) ==
    IF run.raised THEN Done(empty, {cmd})
    ELSE IF body.kind = "raise" THEN Done(empty, {})
    ELSE Done(body.value, {})

get_interface_metrics(interface, run) ==
    TryCollect(run, "netstat",
               LET r == parse_netstat_interface(run.stdout, interface)
               IN  Return(OptToPy(r.value)),
               PyNone)

get_dns_servers(run) ==
    TryCollect(run, "scutil",
               Return(PyList(parse_dns_servers(run.stdout).value)),
               PyList(<<>>))

(* if code == 0: return parse_dhcp_info(stdout) ... return None *)
get_dhcp_info(interface, run) ==
    TryCollect(run, "ipconfig",
               IF run.code = 0
               THEN Return(OptToPy(parse_dhcp_info(run.stdout).value))
               ELSE Return(PyNone),
               PyNone)

(* dns.startswith('127.') or dns == '::1' *)
IsLocalDns(dns) == dns \in LocalAddrs \cup {"::1"}

IsNetworkDns(dns) == ~IsLocalDns(dns)

(* The DHCP servers when the packet names any; otherwise the resolver's    *)
(* servers without the local ones; the empty list when that fails too.     *)
get_network_dns_servers(interface, runs) ==
    LET dhcp == get_dhcp_info(interface, runs[1])
        dhcp_info == dhcp.value
        all_dns == parse_dns_servers(runs[2].stdout).value
        dns_servers == SelectSeq(all_dns, IsNetworkDns)
    IN  IF dhcp_info # PyNone /\ dhcp_info.dns_servers # <<>>
        THEN Done(PyList(dhcp_info.dns_servers), dhcp.failed)
        ELSE IF runs[2].raised
        THEN Done(PyList(<<>>), dhcp.failed \cup {"scutil"})
        ELSE Done(PyList(dns_servers), dhcp.failed)

(* is_wifi_interface (utils.py): any exception gives False.                *)
HasRssiLabel(line) == line.label = "agrCtlRSSI"

is_wifi_interface(run) ==
    IF run.raised THEN FALSE
    ELSE run.code = 0 /\ SelectSeq(run.stdout, HasRssiLabel) # <<>>

get_wifi_info(interface, runs) ==
    LET probe == IF runs[1].raised THEN {"airport -I (is_wifi_interface)"} ELSE {}
    IN  IF ~is_wifi_interface(runs[1]) THEN Done(PyNone, probe)
        ELSE IF runs[2].raised THEN Done(PyNone, {"airport -I"})
        ELSE IF runs[2].code = 0
        THEN LET r == parse_airport_info(runs[2].stdout)
             IN  IF r.kind = "raise" THEN Done(PyNone, {})
                 ELSE Done(OptToPy(r.value), {})
        ELSE Done(PyNone, {})

(* float(s) on a match of [\d.]+: digits with at most one point and at     *)
(* least one digit; "." or "1.2.3" raise ValueError.                       *)
IsDot(c) == c = "."

IsDigit(c) == c \in Digits

IsFloat(s) == Len(SelectSeq(s, IsDot)) <= 1 /\ SelectSeq(s, IsDigit) # <<>>

(* The number a decimal string denotes, in thousandths (the strings used   *)
(* carry at most three decimals).                                          *)
Thousandths(s) ==
    LET whole == PrefixIn(s, Digits)
        frac == IF Len(whole) < Len(s) THEN SubSeq(s, Len(whole) + 2, Len(s))
                ELSE <<>>
        padded == SubSeq(frac \o <<"0", "0", "0">>, 1, 3)
    IN  BaseValue(whole, 10) * 1000 + BaseValue(padded, 10)

(* PingResult(host=..., ...): the RTT fields default to None.              *)
PingResult(host, sent, received, loss, rtt) ==
    [type |-> "PingResult", host |-> host, packets_sent |-> sent,
     packets_received |-> received, packet_loss |-> loss,
     min_rtt |-> IF IsNone(rtt) THEN None ELSE Some(Get(rtt)[1]),
     avg_rtt |-> IF IsNone(rtt) THEN None ELSE Some(Get(rtt)[2]),
     max_rtt |-> IF IsNone(rtt) THEN None ELSE Some(Get(rtt)[3]),
     stddev_rtt |-> IF IsNone(rtt) THEN None ELSE Some(Get(rtt)[4])]

(* The ping output is read as the captures of the first match of each of   *)
(* the two patterns: stats, the three groups of the "N packets             *)
(* transmitted, ..." line, and rtt, the four groups of the "round-trip"    *)
(* line; None when the pattern matches nowhere.                            *)
ParsePing_DropWithoutRtt(host, stdout) ==
    LET stats == Get(stdout.stats)
        rtt == Get(stdout.rtt)
    IN  IF IsNone(stdout.stats) THEN Return(PyNone)
        ELSE IF ~IsFloat(stats[3]) THEN Raise("ValueError")
        ELSE IF IsNone(stdout.rtt) THEN Return(PyNone)
        ELSE IF \E k \in 1..4 : ~IsFloat(rtt[k]) THEN Raise("ValueError")
        ELSE Return(PingResult(host, BaseValue(stats[1], 10),
                               BaseValue(stats[2], 10), Thousandths(stats[3]),
                               Some([k \in 1..4 |-> Thousandths(rtt[k])])))

ParsePing(host, stdout) ==
    LET stats == Get(stdout.stats)
        rtt == Get(stdout.rtt)
    IN  IF IsNone(stdout.stats) THEN Return(PyNone)
        ELSE IF ~IsFloat(stats[3]) THEN Raise("ValueError")
        ELSE IF IsNone(stdout.rtt)
        THEN Return(PingResult(host, BaseValue(stats[1], 10),
                               BaseValue(stats[2], 10), Thousandths(stats[3]),
                               None))
        ELSE IF \E k \in 1..4 : ~IsFloat(rtt[k]) THEN Raise("ValueError")
        ELSE Return(PingResult(host, BaseValue(stats[1], 10),
                               BaseValue(stats[2], 10), Thousandths(stats[3]),
                               Some([k \in 1..4 |-> Thousandths(rtt[k])])))

run_ping_test(host, count, run) ==
    TryCollect(run, "ping",
               IF run.code # 0
               THEN Return(PingResult(host, count, 0, 100000, None))
               ELSE ParsePing(host, run.stdout),
               PyNone)

ConnectionLimit == 50

(* connections[:50] *)
LimitEntries(entries) ==
    IF Len(entries) <= ConnectionLimit THEN entries
    ELSE SubSeq(entries, 1, ConnectionLimit)

(* A row of lsof output is the number of its whitespace-separated tokens   *)
(* and its place in the output; token k of row i is the pair <<i, k>>.     *)
HasNineParts(row) == row.ntokens >= 9

Connection(row) ==
    [command |-> <<row.id, 0>>, pid |-> <<row.id, 1>>, user |-> <<row.id, 2>>,
     protocol |-> <<row.id, 7>>,
     state |-> IF row.ntokens > 9 THEN <<row.id, 9>> ELSE <<>>]

(* lines[1:]: the first line is skipped whatever it holds.                 *)
get_active_connections(run) ==
    TryCollect(run, "lsof",
               LET lines == run.stdout
                   rows == IF lines = <<>> THEN <<>> ELSE Tail(lines)
               IN  Return(PyList(LimitEntries(
                       MapSeq(SelectSeq(rows, HasNineParts), Connection)))),
               PyList(<<>>))

(* A line of arp -a output is its place in the output and whether          *)
(* "host (ip) at mac on interface" matches in it.                          *)
IsArpMatch(line) == line.matches

ArpEntry(line) ==
    [hostname |-> <<line.id, 1>>, ip |-> <<line.id, 2>>, mac |-> <<line.id, 3>>,
     interface |-> <<line.id, 4>>]

get_arp_cache(run) ==
    TryCollect(run, "arp",
               Return(PyList(MapSeq(SelectSeq(run.stdout, IsArpMatch), ArpEntry))),
               PyList(<<>>))

get_wifi_scan(run) ==
    TryCollect(run, "airport -s",
               IF run.code = 0
               THEN Return(PyList(parse_airport_scan(run.stdout)))
               ELSE Return(PyList(<<>>)),
               PyList(<<>>))

RoutingInfo(routes, default_gateway) ==
    [type |-> "dict", routes |-> routes, default_gateway |-> default_gateway]

get_routing_info(run) ==
    TryCollect(run, "netstat -rn",
               Return(RoutingInfo(parse_routing_table(run.stdout),
                                  get_default_gateway(run.stdout))),
               RoutingInfo(<<>>, None))

(* name.startswith(('lo', 'gif', 'stf', 'fw')), for the names used *)
IsSkippedInterface(name) == name \in {"lo0", "gif0", "stf0", "fw0"}

(* The loop over the interface names: interfaces is the list built so far; *)
(* an exception of parse_ifconfig ends the loop and leaves the list as it  *)
(* is.                                                                     *)
RECURSIVE CollectInterfaces(_, _, _, _)
CollectInterfaces(names, stdout, port_mapping, interfaces) ==
    IF names = <<>> THEN interfaces
    ELSE LET name == Head(names)
             info == parse_ifconfig(stdout, name)
         IN  IF IsSkippedInterface(name)
             THEN CollectInterfaces(Tail(names), stdout, port_mapping, interfaces)
             ELSE IF info.kind = "raise" THEN interfaces
             ELSE IF IsNone(info.value)
             THEN CollectInterfaces(Tail(names), stdout, port_mapping, interfaces)
             ELSE CollectInterfaces(
                      Tail(names), stdout, port_mapping,
                      Append(interfaces,
                             [Get(info.value) EXCEPT !.hardware_port =
                                 IF name \in DOMAIN port_mapping
                                 THEN port_mapping[name] ELSE "Unknown"]))

get_all_interfaces(runs) ==
    IF runs[1].raised THEN Done(PyList(<<>>), {"networksetup"})
    ELSE IF runs[2].raised THEN Done(PyList(<<>>), {"ifconfig"})
    ELSE Done(PyList(CollectInterfaces(
                  parse_all_interfaces(runs[2].stdout), runs[2].stdout,
                  parse_hardware_port_mapping(runs[1].stdout), <<>>)), {})

---------------------------------------------------------------------------
(* Inputs of the collectors: what execute_command gives at each            *)
(* invocation the collector makes, in order.                               *)

MaxCollectLines == 2

MaxListing == 52

Runs(stdouts, codes) ==
    { ExecOk(o, c) : o \in stdouts, c \in codes } \cup { ExecError(e) : e \in ErrorKinds }

NetstatRuns == Runs(SeqsUpTo(NetstatRows, 1), {0})

ResolverRuns ==
    Runs(SeqsUpTo({ [label |-> "nameserver", value |-> a] :
                       a \in {"8.8.8.8", "127.0.0.1"} }, MaxCollectLines), {0})

DhcpRuns ==
    Runs({ p \in DhcpPackets :
             /\ p.op \in {"BOOTREPLY", ""}
             /\ IsNone(p.server_identifier) /\ IsNone(p.router)
             /\ IsNone(p.domain_name) /\ IsNone(p.subnet_mask)
             /\ IsNone(p.lease_time)
             /\ Len(p.domain_name_server) = 1 =>
                   Len(Get(p.domain_name_server)) = 1 }, {0, 1})

AirportRuns ==
    Runs(SeqsUpTo({ AirportLine("agrCtlRSSI", <<"-55">>, <<"-", "5", "5">>),
                    AirportLine("SSID", <<"home">>, <<>>) }, MaxCollectLines),
         {0, 1})

ScanRows ==
    LET ssid == <<"h", "o", "m", "e">>
        bssid == <<"a", ":", "b">>
        rssi == <<"-", "5", "5">>
        rest == <<<<"Y">>, <<"U", "S">>, <<"W", "P", "A", "2">>>>
    IN  { <<ssid, bssid, rssi, <<"3", "6">>>> \o rest,
          <<ssid, bssid, rssi, <<"3", "6", ",", "+", "1">>>> \o rest,
          <<ssid, bssid, rssi>> }

ScanRuns == Runs(SeqsUpTo(ScanRows, MaxCollectLines), {0, 1})

RouteLines ==
    { <<"Destination", "Gateway", "Flags", "Netif">>,
      <<"default", "1.1.1.1", "UGSc", "en0">>,
      <<"Internet6:">> }

RouteRuns == Runs(SeqsUpTo(RouteLines, MaxCollectLines + 1), {0})

PortLines ==
    { [label |-> "Hardware Port", value |-> "Wi-Fi"],
      [label |-> "Device", value |-> "en0"] }

PortRuns == Runs(SeqsUpTo(PortLines, MaxCollectLines), {0})

CollectIfLines ==
    { IfLine("en0", FALSE, "mtu", "", <<"1", "5", "0", "0">>),
      IfLine("lo0", FALSE, "mtu", "", <<"9", "0">>),
      IfLine("", TRUE, "inet", "8.8.8.8",
             <<"f", "f", "f", "f", "f", "f", "0", "0">>),
      IfLine("", TRUE, "inet", "1.1.1.1", <<"f", "f", "f", "f">>) }

IfconfigRuns == Runs(SeqsUpTo(CollectIfLines, MaxCollectLines), {0})

(* Listings of n lines; with k > 0 every k-th line is malformed: an lsof   *)
(* row of 8 tokens, an arp line the pattern does not match.  The other     *)
(* lsof rows have 9 tokens, or 10 when k = 0.                              *)
LsofOutput(n, k) ==
    <<[id |-> 0, ntokens |-> 9]>> \o
    [i \in 1..n |->
        [id |-> i,
         ntokens |-> IF k = 0 THEN 10 ELSE IF i % k = 0 THEN 8 ELSE 9]]

ArpOutput(n, k) ==
    [i \in 1..n |-> [id |-> i, matches |-> k = 0 \/ i % k # 0]]

LsofRuns ==
    Runs({<<>>} \cup { LsofOutput(n, k) : n \in 0..MaxListing, k \in {0, 2, 3} }, {0})

ArpRuns == Runs({ ArpOutput(n, k) : n \in 0..MaxListing, k \in {0, 2, 3} }, {0})

PingStats ==
    { <<<<"1", "0">>, <<"8">>, <<"2", "0", ".", "0">>>>,
      <<<<"1", "0">>, <<"0">>, <<"1", "0", "0", ".", "0">>>>,
      <<<<"1", "0">>, <<"1", "0">>, <<"0", ".", "0">>>>,
      <<<<"1", "0">>, <<"8">>, <<"2", ".", "0", ".", "0">>>> }

PingRtts ==
    { <<<<"1", "2", ".", "3">>, <<"2", "3", ".", "4", "5">>, <<"3", "4">>,
        <<"5", ".", "6", "7", "8">>>>,
      <<<<"1", "2", ".", "3">>, <<"2", "3", ".", ".", "4">>, <<"3", "4">>,
        <<"5", ".", "6">>>> }

PingRuns ==
    Runs({ [stats |-> st, rtt |-> rt] :
             st \in Optional(PingStats), rt \in Optional(PingRtts) }, {0, 2})

CollectCalls ==
    { [op |-> "get_interface_metrics", interface |-> <<"e", "n", "0">>,
       runs |-> <<r>>] : r \in NetstatRuns }
    \cup { [op |-> "get_dns_servers", runs |-> <<r>>] : r \in ResolverRuns }
    \cup { [op |-> "get_dhcp_info", interface |-> "en0", runs |-> <<r>>] :
              r \in DhcpRuns }
    \cup { [op |-> "get_network_dns_servers", interface |-> "en0",
            runs |-> <<r1, r2>>] : r1 \in DhcpRuns, r2 \in ResolverRuns }
    \cup { [op |-> "get_wifi_info", interface |-> "en0", runs |-> <<r1, r2>>] :
              r1 \in AirportRuns, r2 \in AirportRuns }
    \cup { [op |-> "get_wifi_scan", runs |-> <<r>>] : r \in ScanRuns }
    \cup { [op |-> "get_routing_info", runs |-> <<r>>] : r \in RouteRuns }
    \cup { [op |-> "get_all_interfaces", runs |-> <<r1, r2>>] :
              r1 \in PortRuns, r2 \in IfconfigRuns }
    \cup { [op |-> "get_arp_cache", runs |-> <<r>>] : r \in ArpRuns }
    \cup { [op |-> "get_active_connections", runs |-> <<r>>] : r \in LsofRuns }
    \cup { [op |-> "run_ping_test", host |-> "8.8.8.8", count |-> 10,
            runs |-> <<r>>] : r \in PingRuns }

InitCollect == call \in CollectCalls /\ result = Pending

GetInterfaceMetrics ==
    /\ call.op = "get_interface_metrics" /\ result = Pending
    /\ result' = get_interface_metrics(call.interface, call.runs[1])
    /\ UNCHANGED call

GetDnsServers ==
    /\ call.op = "get_dns_servers" /\ result = Pending
    /\ result' = get_dns_servers(call.runs[1])
    /\ UNCHANGED call

GetDhcpInfo ==
    /\ call.op = "get_dhcp_info" /\ result = Pending
    /\ result' = get_dhcp_info(call.interface, call.runs[1])
    /\ UNCHANGED call

GetNetworkDnsServers ==
    /\ call.op = "get_network_dns_servers" /\ result = Pending
    /\ result' = get_network_dns_servers(call.interface, call.runs)
    /\ UNCHANGED call

GetWifiInfo ==
    /\ call.op = "get_wifi_info" /\ result = Pending
    /\ result' = get_wifi_info(call.interface, call.runs)
    /\ UNCHANGED call

GetWifiScan ==
    /\ call.op = "get_wifi_scan" /\ result = Pending
    /\ result' = get_wifi_scan(call.runs[1])
    /\ UNCHANGED call

GetRoutingInfo ==
    /\ call.op = "get_routing_info" /\ result = Pending
    /\ result' = get_routing_info(call.runs[1])
    /\ UNCHANGED call

GetAllInterfaces ==
    /\ call.op = "get_all_interfaces" /\ result = Pending
    /\ result' = get_all_interfaces(call.runs)
    /\ UNCHANGED call

GetArpCache ==
    /\ call.op = "get_arp_cache" /\ result = Pending
    /\ result' = get_arp_cache(call.runs[1])
    /\ UNCHANGED call

GetActiveConnections ==
    /\ call.op = "get_active_connections" /\ result = Pending
    /\ result' = get_active_connections(call.runs[1])
    /\ UNCHANGED call

RunPingTest ==
    /\ call.op = "run_ping_test" /\ result = Pending
    /\ result' = run_ping_test(call.host, call.count, call.runs[1])
    /\ UNCHANGED call

NextCollect ==
    \/ GetInterfaceMetrics
    \/ GetDnsServers
    \/ GetDhcpInfo
    \/ GetNetworkDnsServers
    \/ GetWifiInfo
    \/ GetWifiScan
    \/ GetRoutingInfo
    \/ GetAllInterfaces
    \/ GetArpCache
    \/ GetActiveConnections
    \/ RunPingTest

SpecCollect == InitCollect /\ [][NextCollect]_vars

---------------------------------------------------------------------------
(* The whole program: any call of any of the functions above.              *)

Init == InitHealth \/ InitParse \/ InitCollect

Next == NextHealth \/ NextParse \/ NextCollect

Spec == Init /\ [][Next]_vars

---------------------------------------------------------------------------
(* Claims about assess_network_health *)

IsAssess == call.op = "assess_network_health"

Returned == result.kind = "return"

(* C1: whenever assess_network_health returns, the score of the verdict is *)
(* an integer between 0 and 100 and equals max(0, 100 - the sum of the     *)
(* penalties the run applied).                                             *)
C1_ScoreIsClampedPenaltySum ==
    (IsAssess /\ Returned) =>
        /\ result.value.score \in 0..100
        /\ result.value.score = Max(0, 100 - Sum(result.penalties))

(* A verdict whose penalties exceed 100 and whose score was floored at 0.  *)
C1_Witness ==
    /\ IsAssess /\ Returned
    /\ Sum(result.penalties) > 100
    /\ result.value.score = 0

(* The ping results of the call that have no RTT fields. *)
FailedPings(c) ==
    IF IsNone(c.ping_results) THEN {}
    ELSE {p \in Range(Get(c.ping_results)) :
             IsNone(p.avg_rtt) /\ IsNone(p.stddev_rtt)}

(* C2: an assessment given a ping result without RTT fields still returns  *)
(* a verdict, with the packet-loss error of that target in it and no       *)
(* latency or jitter message for it.                                       *)
C2_FailedPingStillAssessed ==
    (IsAssess /\ result # Pending /\ FailedPings(call) # {}) =>
        /\ Returned
        /\ \A p \in FailedPings(call) :
              /\ p.packet_loss > 5 =>
                    Msg("High packet loss to", p.host) \in Range(result.value.errors)
              /\ \A w \in Range(result.value.warnings) :
                    w.host = p.host =>
                        w.text \notin {"High latency to", "High jitter to",
                                       "Moderate jitter to"}

(* The inputs C3 describes: an active interface, metrics without errors or *)
(* collisions, a strong association on 5 GHz at 80 MHz with a non-legacy   *)
(* PHY, one clean ping run, and a 100/20 Mbps speed test.                  *)
C3_Case ==
    /\ IsAssess
    /\ call.interface_info.status = "active"
    /\ ~IsNone(call.metrics)
    /\ Get(call.metrics).errors_in + Get(call.metrics).errors_out = 0
    /\ Get(call.metrics).collisions = 0
    /\ ~IsNone(call.wifi_info)
    /\ Get(call.wifi_info).rssi = -55
    /\ Get(call.wifi_info).snr = 40
    /\ Get(call.wifi_info).channel_width = 80
    /\ Band(Get(call.wifi_info)) = "5GHz"
    /\ ~IsLegacyPhy(Get(call.wifi_info).phy_mode)
    /\ ~IsNone(call.ping_results)
    /\ Len(Get(call.ping_results)) = 1
    /\ Get(call.ping_results)[1].packet_loss = 0
    /\ Get(call.ping_results)[1].avg_rtt = Some(20)
    /\ Get(call.ping_results)[1].stddev_rtt = Some(2)
    /\ call.speed_result = Some([download_mbps |-> 100, upload_mbps |-> 20])

(* C3: on those inputs the verdict has score 100, no warnings, no errors.  *)
C3_HealthyInputsScore100 ==
    (C3_Case /\ result # Pending) =>
        /\ Returned
        /\ result.value.score = 100
        /\ result.value.warnings = <<>>
        /\ result.value.errors = <<>>

C3_Witness == C3_Case /\ Returned /\ result.value.score = 100

C4_Case ==
    /\ IsAssess
    /\ call.interface_info.status = "inactive"
    /\ IsNone(call.metrics) /\ IsNone(call.wifi_info)
    /\ IsNone(call.ping_results) /\ IsNone(call.speed_result)

(* C4: an inactive interface with every other input absent gives score 50, *)
(* the single error "Interface is not active", one recommendation and no   *)
(* warnings.                                                               *)
C4_InactiveAloneScore50 ==
    (C4_Case /\ result # Pending) =>
        /\ Returned
        /\ result.value.score = 50
        /\ result.value.errors = <<Msg("Interface is not active", "")>>
        /\ Len(result.value.recommendations) = 1
        /\ result.value.warnings = <<>>

C4_Witness == C4_Case /\ Returned /\ Len(result.value.errors) = 1

(* The score the call would get with its RSSI replaced by r. *)
ScoreWithRssi(c, r) ==
    assess_network_health(
        [c EXCEPT !.wifi_info = Some([Get(c.wifi_info) EXCEPT !.rssi = r])]
    ).value.score

C5_Case == IsAssess /\ Returned /\ ~IsNone(call.wifi_info)

(* Between the RSSI of the call and any other, the weaker one never scores *)
(* higher.                                                                 *)
C5_NonIncreasing ==
    \A r \in RssiValues :
        /\ r <= Get(call.wifi_info).rssi =>
              ScoreWithRssi(call, r) <= result.value.score
        /\ r >= Get(call.wifi_info).rssi =>
              ScoreWithRssi(call, r) >= result.value.score

C5_StrictAtTiers ==
    /\ ScoreWithRssi(call, -65) > ScoreWithRssi(call, -75)
    /\ ScoreWithRssi(call, -75) > ScoreWithRssi(call, -85)

(* C5 as stated: the score never rises as RSSI weakens, and the scores at  *)
(* RSSI -65, -75, -85 strictly decrease for every choice of the other      *)
(* inputs.                                                                 *)
C5_Original == C5_Case => (C5_NonIncreasing /\ C5_StrictAtTiers)

(* C5 as amended: the score never rises as RSSI weakens, and the scores at *)
(* RSSI -65, -75, -85 strictly decrease exactly when the score at -75 is   *)
(* positive; otherwise the floor at 0 has been reached and they are not    *)
(* strictly decreasing.                                                    *)
C5_RssiMonotoneUntilFloor ==
    C5_Case =>
        /\ C5_NonIncreasing
        /\ C5_StrictAtTiers <=> ScoreWithRssi(call, -75) > 0

(* A call at RSSI -75 with a positive score, between the scores of the     *)
(* same call at -65 and at -85.                                            *)
C5_Witness ==
    /\ C5_Case
    /\ Get(call.wifi_info).rssi = -75
    /\ result.value.score > 0
    /\ ScoreWithRssi(call, -65) > result.value.score
    /\ result.value.score > ScoreWithRssi(call, -85)

---------------------------------------------------------------------------
(* Claims about the extractors *)

NoDuplicates(s) == \A i, j \in DOMAIN s : s[i] = s[j] => i = j

(* The place of the first occurrence of a in s. *)
FirstIndex(s, a) == CHOOSE i \in DOMAIN s : s[i] = a /\ \A j \in 1..(i - 1) : s[j] # a

(* list holds every address of found once, ordered by first occurrence. *)
IsFirstSeenOrder(list, found) ==
    /\ NoDuplicates(list)
    /\ Range(list) = Range(found)
    /\ \A i, j \in DOMAIN list :
          i < j => FirstIndex(found, list[i]) < FirstIndex(found, list[j])

(* C6: the DNS server list of parse_dns_servers and the dns_servers of     *)
(* parse_dhcp_info hold each address found in the input once, in           *)
(* first-seen order.                                                       *)
C6_DnsListsUniqueFirstSeen ==
    /\ (call.op = "parse_dns_servers" /\ Returned) =>
          IsFirstSeenOrder(
              result.value,
              MapSeq(SelectSeq(call.output, IsNameserverMatch), LineValue))
    /\ (call.op = "parse_dhcp_info" /\ Returned /\ ~IsNone(result.value)) =>
          IsFirstSeenOrder(
              Get(result.value).dns_servers,
              IF IsNone(call.output.domain_name_server) THEN <<>>
              ELSE MapSeq(Get(call.output.domain_name_server), Strip))

ExtractorOps ==
    {"parse_dns_servers", "parse_dhcp_info", "parse_ifconfig",
     "parse_netstat_interface", "parse_airport_info"}

(* C7: no extractor raises, whatever its input: every call returns.        *)
C7_NoExtractorRaises ==
    (call.op \in ExtractorOps /\ result # Pending) => Returned

---------------------------------------------------------------------------
(* Claims about the collectors *)

CollectorOps ==
    {"get_all_interfaces", "get_interface_metrics", "get_wifi_info",
     "get_wifi_scan", "get_routing_info", "get_dns_servers", "get_arp_cache",
     "run_ping_test", "get_active_connections", "get_dhcp_info",
     "get_network_dns_servers"}

IsCollector == call.op \in CollectorOps

Min(a, b) == IF a <= b THEN a ELSE b

(* The entries of every well-formed line of the listing, in source order.  *)
ListingEntries ==
    IF call.op = "get_arp_cache"
    THEN MapSeq(SelectSeq(call.runs[1].stdout, IsArpMatch), ArpEntry)
    ELSE IF call.runs[1].stdout = <<>> THEN <<>>
    ELSE MapSeq(SelectSeq(Tail(call.runs[1].stdout), HasNineParts), Connection)

(* C8: get_active_connections and get_arp_cache return at most 50 entries, *)
(* the first ones of the output in source order.                           *)
C8_ListingsCappedAt50 ==
    (call.op \in {"get_active_connections", "get_arp_cache"}
        /\ Returned /\ ~call.runs[1].raised) =>
        /\ Len(result.value.items) = Min(50, Len(ListingEntries))
        /\ \A i \in DOMAIN result.value.items :
              result.value.items[i] = ListingEntries[i]

(* The documented absent or empty result of each collector. *)
EmptyResult(op) ==
    IF op \in {"get_interface_metrics", "get_wifi_info", "run_ping_test",
               "get_dhcp_info"}
    THEN PyNone
    ELSE IF op = "get_routing_info" THEN RoutingInfo(<<>>, None)
    ELSE PyList(<<>>)

(* C9 as stated: a collector never lets the error of execute_command out,  *)
(* and returns its documented empty result whenever one of its invocations *)
(* raised.                                                                 *)
C9_Original ==
    (IsCollector /\ result # Pending) =>
        /\ Returned
        /\ result.failed # {} => result.value = EmptyResult(call.op)

(* C9 as amended: a collector never lets the error of execute_command out; *)
(* whenever one of its invocations raised it returns its documented empty  *)
(* result, except get_network_dns_servers when only the DHCP lookup        *)
(* raised: it then returns the non-local servers of the resolver output.   *)
C9_ExecErrorsNeverPropagate ==
    (IsCollector /\ result # Pending) =>
        /\ Returned
        /\ call.runs[1].raised => result.failed # {}
        /\ result.failed # {} =>
              \/ result.value = EmptyResult(call.op)
              \/ /\ call.op = "get_network_dns_servers"
                 /\ result.failed = {"ipconfig"}
                 /\ ~call.runs[2].raised
                 /\ result.value =
                       PyList(SelectSeq(
                           UniqueInOrder(MapSeq(
                               SelectSeq(call.runs[2].stdout, IsNameserverMatch),
                               LineValue)),
                           IsNetworkDns))

(* The second invocation of get_all_interfaces raised after the first      *)
(* succeeded, and the empty list was returned.                             *)
C9_Witness ==
    /\ call.op = "get_all_interfaces"
    /\ Returned
    /\ ~call.runs[1].raised /\ call.runs[2].raised
    /\ result.failed = {"ifconfig"}
    /\ result.value = PyList(<<>>)

C10_Case ==
    /\ call.op = "run_ping_test"
    /\ result # Pending
    /\ ~call.runs[1].raised
    /\ call.runs[1].code = 0

(* The PingResult that carries the figures of the two summary lines. *)
C10_Expected ==
    LET out == call.runs[1].stdout
        stats == Get(out.stats)
    IN  [type |-> "PingResult", host |-> call.host,
         packets_sent |-> BaseValue(stats[1], 10),
         packets_received |-> BaseValue(stats[2], 10),
         packet_loss |-> Thousandths(stats[3]),
         min_rtt |-> IF IsNone(out.rtt) THEN None
                     ELSE Some(Thousandths(Get(out.rtt)[1])),
         avg_rtt |-> IF IsNone(out.rtt) THEN None
                     ELSE Some(Thousandths(Get(out.rtt)[2])),
         max_rtt |-> IF IsNone(out.rtt) THEN None
                     ELSE Some(Thousandths(Get(out.rtt)[3])),
         stddev_rtt |-> IF IsNone(out.rtt) THEN None
                        ELSE Some(Thousandths(Get(out.rtt)[4]))]

(* Every number captured by the two patterns is one float() accepts. *)
C10_TokensConvert ==
    LET out == call.runs[1].stdout
    IN  /\ IsFloat(Get(out.stats)[3])
        /\ ~IsNone(out.rtt) => \A k \in 1..4 : IsFloat(Get(out.rtt)[k])

(* C10 as stated: with exit code 0 and a matching transmission summary a   *)
(* PingResult with the figures of that line is returned, its RTT fields    *)
(* set exactly when the RTT line matches; None is returned only when the   *)
(* transmission summary does not match.                                    *)
C10_Original ==
    C10_Case =>
        /\ Returned
        /\ IF IsNone(call.runs[1].stdout.stats) THEN result.value = PyNone
           ELSE result.value # PyNone /\ result.value = C10_Expected

(* C10 as amended: the same, provided the captured numbers convert; when   *)
(* the loss figure or an RTT figure is not a number float() accepts, the   *)
(* ValueError is caught and None is returned.                              *)
C10_PingRecordKeptWithoutRtt ==
    C10_Case =>
        /\ Returned
        /\ IF IsNone(call.runs[1].stdout.stats) THEN result.value = PyNone
           ELSE IF C10_TokensConvert THEN result.value = C10_Expected
           ELSE result.value = PyNone

(* A run with exit code 0, a matching transmission summary and no RTT      *)
(* line, returned as a PingResult without RTT fields.                      *)
C10_Witness ==
    /\ C10_Case /\ Returned
    /\ ~IsNone(call.runs[1].stdout.stats)
    /\ IsNone(call.runs[1].stdout.rtt)
    /\ result.value # PyNone
    /\ result.value.packets_sent = 10
    /\ IsNone(result.value.avg_rtt)

---------------------------------------------------------------------------
(* Claims about parse_ifconfig *)

IsIfconfig == call.op = "parse_ifconfig"

(* The lines of the block of the requested interface, as the claims        *)
(* describe it: from the first "name:" line up to the next non-empty       *)
(* unindented line that is not a "name:" line, or the end of the input.    *)
OwnBlock == ScanBlock(call.output, call.interface_name, FALSE, <<>>)

IsInetLine(line) == line.label = "inet" /\ IsIPv4(line.value)

IsValidMask(chars) ==
    Len(chars) = 8 /\ \A i \in DOMAIN chars : chars[i] \in LowerHex \cup UpperHex

(* The first inet line of the block carries a valid mask of 8 hex digits.  *)
C11_Case ==
    /\ IsIfconfig /\ result # Pending
    /\ SelectSeq(OwnBlock, IsInetLine) # <<>>
    /\ IsValidMask(Head(SelectSeq(OwnBlock, IsInetLine)).chars)

(* The four bytes of the mask, decoded by hand: 16 * high digit + low      *)
(* digit.                                                                  *)
C11_Expected ==
    LET chars == Head(SelectSeq(OwnBlock, IsInetLine)).chars
    IN  [k \in 1..4 |-> 16 * HexDigit(chars[2 * k - 1]) + HexDigit(chars[2 * k])]

(* C11: for a valid mask of 8 hex digits, in either letter case, on the    *)
(* inet line of the requested interface, parse_ifconfig returns a record   *)
(* whose netmask is the four bytes in decimal.                             *)
C11_MaskDecodedEitherCase ==
    C11_Case =>
        /\ Returned
        /\ ~IsNone(result.value)
        /\ Get(result.value).netmask = Some(C11_Expected)

---------------------------------------------------------------------------
(* Claims about the lists of the verdict *)

(* The step of the fixed evaluation order that a message text belongs to:  *)
(* 1 interface status, 2 error rate, 3 collisions, 4 RSSI, 5 SNR, 6 legacy *)
(* PHY, 7 channel width; within a ping target 1 loss, 2 latency, 3 jitter; *)
(* after the targets 1 download, 2 upload.                                 *)
StepOf(text) ==
    CASE text = "Interface is not active" -> 1
      [] text \in {"High error rate", "Moderate error rate"} -> 2
      [] text = "High collision rate detected" -> 3
      [] text \in {"Very weak WiFi signal", "Weak WiFi signal",
                   "Fair WiFi signal"} -> 4
      [] text \in {"Poor signal-to-noise ratio", "Low signal-to-noise ratio"} -> 5
      [] text = "Using older WiFi standard" -> 6
      [] text = "Using narrow channel width" -> 7
      [] text \in {"High packet loss to", "Moderate packet loss to"} -> 1
      [] text = "High latency to" -> 2
      [] text \in {"High jitter to", "Moderate jitter to"} -> 3
      [] text = "Slow download speed" -> 1
      [] text = "Slow upload speed" -> 2

HostIndex(host) == CHOOSE i \in DOMAIN Hosts : Hosts[i] = host

(* The place of a message in the evaluation order. *)
Slot(msg) ==
    IF msg.host # "" THEN 7 + 3 * (HostIndex(msg.host) - 1) + StepOf(msg.text)
    ELSE IF msg.text \in {"Slow download speed", "Slow upload speed"}
    THEN 7 + 3 * Len(Hosts) + StepOf(msg.text)
    ELSE StepOf(msg.text)

LastSlot == 7 + 3 * Len(Hosts) + 2

InSlotOrder(list) ==
    \A i, j \in DOMAIN list : i < j => Slot(list[i]) < Slot(list[j])

(* The recommendation that a message is appended with, "" when it has      *)
(* none.                                                                   *)
RecommendationOf(text) ==
    CASE text = "Interface is not active" ->
             "Check interface configuration and ensure it's enabled"
      [] text = "High error rate" ->
             "Check network cables or WiFi signal strength"
      [] text = "High collision rate detected" -> "Network may be congested"
      [] text = "Very weak WiFi signal" ->
             "Move closer to access point or use 5GHz band"
      [] text = "Weak WiFi signal" -> "Consider moving closer to access point"
      [] text = "Poor signal-to-noise ratio" ->
             "High interference detected, try changing WiFi channel"
      [] text = "Using older WiFi standard" ->
             "Upgrade to WiFi 5 (802.11ac) or WiFi 6 (802.11ax)"
      [] text = "Using narrow channel width" ->
             "Configure router for 80MHz or 160MHz channel width"
      [] text = "High packet loss to" ->
             "Check network stability and internet connection"
      [] text = "High latency to" ->
             "Check for network congestion or bandwidth issues"
      [] text = "High jitter to" ->
             "Network instability detected, may affect VoIP and gaming"
      [] text = "Slow download speed" ->
             "Contact ISP or check for bandwidth throttling"
      [] OTHER -> ""

(* The errors and warnings of the verdict that sit at slot k. *)
MessagesAt(k) ==
    { m \in Range(result.value.errors) \cup Range(result.value.warnings) :
        Slot(m) = k }

(* The recommendations of the messages at slots k..LastSlot, in slot order. *)
RECURSIVE RecommendationsFrom(_)
RecommendationsFrom(k) ==
    IF k > LastSlot THEN <<>>
    ELSE LET here == { RecommendationOf(m.text) : m \in MessagesAt(k) } \ {""}
         IN  (IF here = {} THEN <<>> ELSE <<Msg(CHOOSE r \in here : TRUE, "")>>)
             \o RecommendationsFrom(k + 1)

(* C12: errors and warnings are each in evaluation order, every step       *)
(* appends at most one error or warning, the recommendations are those of  *)
(* the appended errors and warnings in evaluation order, and they are no   *)
(* more than the errors plus the warnings.                                 *)
C12_ListsInEvaluationOrder ==
    (IsAssess /\ Returned) =>
        /\ InSlotOrder(result.value.errors)
        /\ InSlotOrder(result.value.warnings)
        /\ \A k \in 1..LastSlot : Cardinality(MessagesAt(k)) <= 1
        /\ result.value.recommendations = RecommendationsFrom(1)
        /\ Len(result.value.recommendations) <=
              Len(result.value.errors) + Len(result.value.warnings)

(* A verdict with messages of the interface, the radio, two ping targets   *)
(* and the speed test, in both lists.                                      *)
C12_Witness ==
    /\ IsAssess /\ Returned
    /\ Len(result.value.errors) >= 4
    /\ Len(result.value.warnings) >= 4
    /\ Len(result.value.recommendations) >= 5
    /\ \E m \in Range(result.value.warnings) : m.text = "Slow upload speed"
    /\ \E m \in Range(result.value.errors) : m.host = Hosts[2]
    /\ \E m \in Range(result.value.warnings) : m.host = Hosts[1]

---------------------------------------------------------------------------
(* Claims about single checks of assess_network_health *)

HasText(list, text) == \E i \in DOMAIN list : list[i].text = text

(* The amounts the same call subtracts with its collision count set to 0. *)
PenaltiesWithoutCollisions ==
    assess_network_health(
        [call EXCEPT !.metrics = Some([Get(call.metrics) EXCEPT !.collisions = 0])]
    ).penalties

C13_Case ==
    /\ IsAssess /\ Returned
    /\ ~IsNone(call.metrics)
    /\ Get(call.metrics).collisions * 100 >
          Get(call.metrics).packets_in + Get(call.metrics).packets_out

(* C13: whenever metrics are present and collisions exceed one percent of  *)
(* the packet total, a total of 0 included, the verdict carries the        *)
(* collision warning and its recommendation and 5 more is subtracted than  *)
(* without the collisions.                                                 *)
C13_CollisionsPenalisedAtAnyTotal ==
    C13_Case =>
        /\ HasText(result.value.warnings, "High collision rate detected")
        /\ HasText(result.value.recommendations, "Network may be congested")
        /\ Sum(result.penalties) = Sum(PenaltiesWithoutCollisions) + 5

(* The amounts the same call subtracts with a channel width of 80 MHz. *)
PenaltiesWithWideChannel ==
    assess_network_health(
        [call EXCEPT !.wifi_info =
            Some([Get(call.wifi_info) EXCEPT !.channel_width = 80])]
    ).penalties

C14_Case == IsAssess /\ Returned /\ ~IsNone(call.wifi_info)

(* C14: with wifi info on the 5 GHz band and a channel width below 40 MHz, *)
(* 0 included, the verdict carries the narrow-channel warning and its      *)
(* recommendation; otherwise it carries neither; the step subtracts        *)
(* nothing either way.                                                     *)
C14_NarrowChannelWarned ==
    C14_Case =>
        LET w == Get(call.wifi_info)
            narrow == Band(w) = "5GHz" /\ w.channel_width < 40
        IN  /\ narrow <=> HasText(result.value.warnings,
                                  "Using narrow channel width")
            /\ narrow <=> HasText(result.value.recommendations,
                              "Configure router for 80MHz or 160MHz channel width")
            /\ result.penalties = PenaltiesWithWideChannel

---------------------------------------------------------------------------
(* Claims about the block of parse_ifconfig *)

HeaderLines == {i \in DOMAIN call.output : call.output[i].head = call.interface_name}

FirstHeader == CHOOSE i \in HeaderLines : \A j \in HeaderLines : i <= j

IsUnindented(line) == ~line.empty /\ ~line.indented

(* The lines from the first "name:" line up to, not including, the first   *)
(* later line whose place is in stops, or up to the end of the input.      *)
LinesUntil(stops) ==
    LET later == {j \in stops : j > FirstHeader}
        last == IF later = {} THEN Len(call.output)
                ELSE (CHOOSE j \in later : \A k \in later : j <= k) - 1
    IN  SubSeq(call.output, FirstHeader, last)

(* The block as stated: it ends before the next non-empty unindented line. *)
StatedBlock ==
    LinesUntil({j \in DOMAIN call.output : IsUnindented(call.output[j])})

(* The block as amended: it ends before the next non-empty unindented line *)
(* that does not start with "name:"; a repeated "name:" line continues it. *)
AmendedBlock ==
    LinesUntil({j \in DOMAIN call.output :
                  IsUnindented(call.output[j]) /\ j \notin HeaderLines})

(* C15 as stated: a returned record is the one the lines of the stated     *)
(* block alone give, with an empty hardware_port; None is returned when no *)
(* line starts with "name:".                                               *)
C15_Original ==
    (IsIfconfig /\ Returned) =>
        IF HeaderLines = {} THEN IsNone(result.value)
        ELSE /\ ~IsNone(result.value)
             /\ Get(result.value).hardware_port = ""
             /\ result = parse_ifconfig(StatedBlock, call.interface_name)

(* C15 as amended: the outcome of a call is the one the lines of the       *)
(* amended block alone give, a returned record has an empty hardware_port, *)
(* and None is returned when no line starts with "name:".                  *)
C15_FieldsFromOwnBlock ==
    (IsIfconfig /\ result # Pending) =>
        IF HeaderLines = {} THEN Returned /\ IsNone(result.value)
        ELSE /\ result = parse_ifconfig(AmendedBlock, call.interface_name)
             /\ Returned => /\ ~IsNone(result.value)
                             /\ Get(result.value).hardware_port = ""

(* The block of the interface sits between two headers of another one:    *)
(* the address and the mtu are those of the block, not the mtu of the      *)
(* header before it.                                                       *)
C15_Witness ==
    /\ IsIfconfig /\ Returned
    /\ Len(call.output) = 4
    /\ call.output[1].head = "en1" /\ call.output[4].head = "en1"
    /\ HeaderLines = {2} /\ Len(AmendedBlock) = 2
    /\ ~IsNone(result.value)
    /\ Get(result.value).ipv4_address = Some("8.8.8.8")
    /\ Get(result.value).mtu = 1500

---------------------------------------------------------------------------
(* Claims about parse_airport_info *)

IsAirport == call.op = "parse_airport_info"

HasLabelSSID(line) == line.label = "SSID"

HasLabelBSSID(line) == line.label = "BSSID"

(* The text on the first line with the given label, <<>> when no line has  *)
(* it.                                                                     *)
TextOfFirst(lines) == IF lines = <<>> THEN <<>> ELSE Head(lines).value.text

(* C16: the ssid of a returned WiFiInfo is the value of the line labelled  *)
(* exactly SSID and its bssid the value of the BSSID line, wherever the    *)
(* BSSID line stands; without a line labelled SSID the result is None.     *)
C16_SsidFromSsidLine ==
    (IsAirport /\ Returned) =>
        /\ ~IsNone(result.value) =>
              /\ SelectSeq(call.output, HasLabelSSID) # <<>>
              /\ Get(result.value).ssid =
                    TextOfFirst(SelectSeq(call.output, HasLabelSSID))
              /\ Get(result.value).bssid =
                    TextOfFirst(SelectSeq(call.output, HasLabelBSSID))
        /\ SelectSeq(call.output, HasLabelSSID) = <<>> => IsNone(result.value)

---------------------------------------------------------------------------
(* Claims about parse_netstat_interface *)

IsNetstat == call.op = "parse_netstat_interface"

(* A row of the interface itself, with at least 10 tokens and integer      *)
(* counters.                                                               *)
IsOwnUsableRow(parts) ==
    /\ parts # <<>>
    /\ parts[1] = call.interface_name
    /\ Len(parts) >= 10
    /\ \A k \in 5..10 : IsInt(parts[k])
    /\ Len(parts) > 10 => IsInt(parts[11])

(* The counters of a row, read off its columns. *)
CountersOf(parts) ==
    [interface |-> call.interface_name,
     packets_in |-> BaseValue(parts[5], 10),
     errors_in |-> BaseValue(parts[6], 10),
     bytes_in |-> BaseValue(parts[7], 10),
     packets_out |-> BaseValue(parts[8], 10),
     errors_out |-> BaseValue(parts[9], 10),
     bytes_out |-> BaseValue(parts[10], 10),
     collisions |-> IF Len(parts) > 10 THEN BaseValue(parts[11], 10) ELSE 0]

(* C17: the counters returned are those of the first row whose Name column *)
(* equals the name exactly and that has at least 10 tokens and integer     *)
(* counters; None is returned when there is no such row.                   *)
C17_CountersFromExactRow ==
    (IsNetstat /\ Returned) =>
        LET rows == SelectSeq(call.output, IsOwnUsableRow)
        IN  IF rows = <<>> THEN IsNone(result.value)
            ELSE result.value = Some(CountersOf(Head(rows)))

=============================================================================
